---- MODULE Spec2Model ----
(***************************************************************************)
(* Model of OsuCalculator (src/src/osu_lib/calculator.py): the statistics  *)
(* source resolution and the four hit-result reconstructors of calculate,  *)
(* and the mod list parser _parse_mods.                                    *)
(*                                                                         *)
(* Numbers.  acc is a whole percentage (0..100).  The code evaluates the   *)
(* reconstruction formulas in IEEE doubles and rounds with Python's        *)
(* round(); the model evaluates them in exact rational arithmetic          *)
(* (pairs <<numerator, denominator>>) and, where the exact value lies      *)
(* exactly half way between two integers, admits both neighbours, because  *)
(* the double the code rounds may lie on either side of the half.          *)
(***************************************************************************)
EXTENDS Integers, Sequences, FiniteSets, TLC

VARIABLES
    pc,                \* position inside calculate / _parse_mods
    mode,              \* calculate argument: mode
    acc,               \* calculate argument: acc (whole percent)
    misses,            \* calculate argument: misses
    statistics,        \* calculate argument: statistics (None, dict or object)
    beatmap,           \* the decoded and converted beatmap
    effective_misses,  \* calculate local
    stats,             \* calculate local: HitResult -> count
    mod_list,          \* _parse_mods argument
    available_mods,    \* ruleset.CreateAllMods()
    csharp_mods,       \* _parse_mods result
    file_exists,       \* os.path.exists(abs_path)
    combo,             \* calculate argument: combo (None or an int)
    fs,                \* calculate local: the FileStream
    reader,            \* calculate local: the LineBufferedReader
    raised,            \* the step whose exception is being handled, "" if none
    diff_attr,         \* calculate local: the difficulty attributes
    score,             \* calculate local: the ScoreInfo given to the performance calculator
    res,               \* what calculate returns
    calls              \* how often each external call was made

vars == <<pc, mode, acc, misses, statistics, beatmap, effective_misses, stats,
          mod_list, available_mods, csharp_mods,
          file_exists, combo, fs, reader, raised, diff_attr, score, res, calls>>

(***************************************************************************)
(* Bounds of the model.                                                    *)
(***************************************************************************)
MaxTotal == 8        \* largest HitObjects.Count of a non-catch beatmap
MaxMiss == 9         \* largest misses argument (exceeds MaxTotal)
MaxStat == 2         \* largest count stored in a statistics field
MaxKeys == 2         \* largest number of fields of a statistics value
MaxCatchObjs == 2    \* largest number of top-level objects of a catch beatmap
MaxMods == 3         \* longest mod_list

(***************************************************************************)
(* Integer and rational helpers (Python's max, min, round).                *)
(***************************************************************************)
Max(a, b) == IF a >= b THEN a ELSE b
Min(a, b) == IF a <= b THEN a ELSE b
Abs(a) == IF a < 0 THEN -a ELSE a

RECURSIVE GCD(_, _)
GCD(a, b) == IF b = 0 THEN a ELSE GCD(b, a % b)

\* a rational n/d as the reduced pair <<n, d>> with d > 0
Rat(n, d) ==
    LET s == IF d < 0 THEN -1 ELSE 1
        g == GCD(Abs(n), Abs(d))
    IN  <<(s * n) \div g, (s * d) \div g>>
RInt(n) == <<n, 1>>
RAdd(x, y) ==
    LET g == GCD(x[2], y[2])
    IN  Rat(x[1] * (y[2] \div g) + y[1] * (x[2] \div g), (x[2] \div g) * y[2])
RSub(x, y) == RAdd(x, <<-y[1], y[2]>>)
RMul(x, y) ==
    LET a == Rat(x[1], y[2])
        b == Rat(y[1], x[2])
    IN  <<a[1] * b[1], a[2] * b[2]>>
RDiv(x, y) == RMul(x, Rat(y[2], y[1]))
RGeq(x, y) == x[1] * y[2] >= y[1] * x[2]
RMax(x, y) == IF RGeq(x, y) THEN x ELSE y

\* a variant of RMin that always returns its second argument
RMinSecond(x, y) == y

\* min(x, y)
RMin(x, y) == IF RGeq(x, y) THEN y ELSE x

\* a variant of Round that rounds down
RoundDown(x) == {x[1] \div x[2]}

\* int(round(x)): the nearest integer; both neighbours on an exact half
Round(x) ==
    LET f == x[1] \div x[2]
        r == x[1] - f * x[2]
    IN  IF 2 * r < x[2] THEN {f}
        ELSE IF 2 * r > x[2] THEN {f + 1}
        ELSE {f, f + 1}

(***************************************************************************)
(* Statistics values.  A statistics value is None, a dict or an object     *)
(* with attributes; fields maps the names it carries to their counts.      *)
(***************************************************************************)
StatNames ==
    {"great", "ok", "meh", "good", "perfect", "miss", "large_tick_hit",
     "small_tick_hit", "small_tick_miss", "Miss", "slider_tail_hit"}

NoStats == [shape |-> "none", fields |-> <<>>]

_extract_stat(stats_obj, attr_name) ==
    IF stats_obj.shape = "none" THEN 0
    ELSE IF stats_obj.shape = "dict"
         THEN (IF attr_name \in DOMAIN stats_obj.fields
               THEN stats_obj.fields[attr_name] ELSE 0)
         ELSE (IF attr_name \in DOMAIN stats_obj.fields
               THEN stats_obj.fields[attr_name] ELSE 0)

\* the keys list of _has_valid_stats, as written in the source
ValidStatKeys ==
    {"great", "ok", "meh", "good", "perfect", "miss", "large_tick_hit",
     "small_tick_hit", "small_tck_miss"}

_has_valid_stats(stats_obj) ==
    IF stats_obj.shape = "none"
       \/ (stats_obj.shape = "dict" /\ DOMAIN stats_obj.fields = {})
    THEN FALSE
    ELSE \E k \in ValidStatKeys : _extract_stat(stats_obj, k) > 0

(***************************************************************************)
(* Beatmaps: HitObjects is a sequence of objects; a JuiceStream carries    *)
(* NestedHitObjects.                                                       *)
(***************************************************************************)
Obj(t) == [type |-> t, NestedHitObjects |-> <<>>]
JuiceStream(nested) == [type |-> "JuiceStream", NestedHitObjects |-> nested]

\* the census loop of _sim_catch: <<max_fruits, max_droplets_total, max_tiny_droplets>>
RECURSIVE NestedCensus(_, _)
NestedCensus(nested, c) ==
    IF nested = <<>> THEN c
    ELSE LET n == Head(nested)
             c2 == IF n.type = "TinyDroplet" THEN <<c[1], c[2] + 1, c[3] + 1>>
                   ELSE IF n.type = "Droplet" THEN <<c[1], c[2] + 1, c[3]>>
                   ELSE IF n.type = "Fruit" THEN <<c[1] + 1, c[2], c[3]>>
                   ELSE c
         IN  NestedCensus(Tail(nested), c2)

RECURSIVE CatchCensus(_, _)
CatchCensus(objs, c) ==
    IF objs = <<>> THEN c
    ELSE LET h == Head(objs)
             c2 == IF h.type = "Fruit" THEN <<c[1] + 1, c[2], c[3]>>
                   ELSE IF h.type = "JuiceStream"
                        THEN NestedCensus(h.NestedHitObjects, c)
                        ELSE c
         IN  CatchCensus(Tail(objs), c2)

(***************************************************************************)
(* The four reconstructors.  Each returns the set of dicts the call may    *)
(* return (one dict, or several where a rounded value is an exact half).   *)
(***************************************************************************)
\* a variant of OsuNoRelevant that caps the reported misses at the object count
OsuNoRelevantCapped(total, m) == {[Miss |-> Min(m, total)]}

\* _sim_osu, fallback simulation, the early return when relevant <= 0
OsuNoRelevant(total, m) == {[Miss |-> m]}

\* a variant of OsuSimulate that takes every object that is not missed for a great
OsuSimulateAllGreat(a, total, m) ==
    {[Great |-> Max(0, total - m), Ok |-> 0, Meh |-> 0, Miss |-> Max(0, m)]}

\* _sim_osu, fallback simulation
OsuSimulate(a, total, m) ==
    LET relevant == total - m
        accuracy == Rat(a, 100)
    IN  IF relevant <= 0 THEN OsuNoRelevant(total, m)
        ELSE
        LET rel_acc == RMax(RInt(0), RMin(RInt(1),
                           RDiv(RMul(accuracy, RInt(total)), RInt(relevant))))
            Result(n100, n50, ms) ==
                LET n300 == total - n100 - n50 - ms
                IN  [Great |-> Max(0, n300), Ok |-> Max(0, n100),
                     Meh |-> Max(0, n50), Miss |-> Max(0, ms)]
        IN  IF RGeq(rel_acc, Rat(1, 4)) THEN
                LET base == RSub(RInt(1), RDiv(RSub(rel_acc, Rat(1, 4)), Rat(3, 4)))
                    ratio == RMul(base, base)
                    c100 == RDiv(RMul(RInt(6 * relevant), RSub(RInt(1), rel_acc)),
                                 RAdd(RMul(RInt(5), ratio), RInt(4)))
                    c50 == RMul(c100, ratio)
                IN  {Result(n100, s - n100, m) :
                        n100 \in Round(c100), s \in Round(RAdd(c100, c50))}
            ELSE IF RGeq(rel_acc, Rat(1, 6)) THEN
                LET c100 == RSub(RMul(RInt(6 * relevant), rel_acc), RInt(relevant))
                    c50 == RSub(RInt(relevant), c100)
                IN  {Result(n100, s - n100, m) :
                        n100 \in Round(c100), s \in Round(RAdd(c100, c50))}
            ELSE
                LET c50 == RMul(RInt(6 * relevant), rel_acc)
                IN  {Result(0, n50, total - n50) : n50 \in Round(c50)}

_sim_osu(a, bm, m, stats_obj) ==
    IF _has_valid_stats(stats_obj)
    THEN {[Great |-> _extract_stat(stats_obj, "great"),
           Ok |-> _extract_stat(stats_obj, "ok"),
           Meh |-> _extract_stat(stats_obj, "meh"),
           Miss |-> _extract_stat(stats_obj, "miss")]}
    ELSE OsuSimulate(a, Len(bm.HitObjects), m)

\* a variant of TaikoSimulate that returns the counts without clamping them at 0
TaikoSimulateUnclamped(a, total, m) ==
    LET relevant == total - m
        accuracy == Rat(a, 100)
    IN  {[Great |-> n_great, Ok |-> relevant - n_great, Miss |-> m] :
            n_great \in Round(RMul(RSub(RMul(RInt(2), accuracy), RInt(1)),
                                   RInt(relevant)))}

\* _sim_taiko, fallback simulation
TaikoSimulate(a, total, m) ==
    LET relevant == total - m
        accuracy == Rat(a, 100)
    IN  {[Great |-> Max(0, n_great),
          Ok |-> Max(0, relevant - n_great),
          Miss |-> Max(0, m)] :
            n_great \in Round(RMul(RSub(RMul(RInt(2), accuracy), RInt(1)),
                                   RInt(relevant)))}

_sim_taiko(a, bm, m, stats_obj) ==
    IF _has_valid_stats(stats_obj)
    THEN {[Great |-> _extract_stat(stats_obj, "great"),
           Ok |-> _extract_stat(stats_obj, "ok"),
           Miss |-> _extract_stat(stats_obj, "miss")]}
    ELSE TaikoSimulate(a, Len(bm.HitObjects), m)

\* a variant of ManiaSimulate that takes every object that is not missed for a meh
ManiaSimulateAllMeh(a, total, m) ==
    {[Perfect |-> 0, Great |-> 0, Good |-> 0, Ok |-> 0,
      Meh |-> Max(0, total - m), Miss |-> Max(0, m)]}

\* _sim_mania, fallback simulation
ManiaSimulate(a, total, m) ==
    LET relevant == total - m
        accuracy == Rat(a, 100)
        Result(n_perfect, n_great, n_good, n_ok, n_meh) ==
            [Perfect |-> Max(0, n_perfect), Great |-> Max(0, n_great),
             Good |-> Max(0, n_good), Ok |-> Max(0, n_ok),
             Meh |-> Max(0, n_meh), Miss |-> Max(0, m)]
        \* p = 1 - (hi - accuracy) / width
        P(hi, width) == RSub(RInt(1), RDiv(RSub(hi, accuracy), width))
        Split(hi, width) == Round(RMul(P(hi, width), RInt(relevant)))
    IN  IF relevant > 0 THEN
            IF RGeq(accuracy, Rat(96, 100)) THEN
                {Result(n, relevant - n, 0, 0, 0) : n \in Split(RInt(1), Rat(4, 100))}
            ELSE IF RGeq(accuracy, Rat(90, 100)) THEN
                {Result(0, n, relevant - n, 0, 0) : n \in Split(Rat(96, 100), Rat(6, 100))}
            ELSE IF RGeq(accuracy, Rat(80, 100)) THEN
                {Result(0, 0, n, relevant - n, 0) : n \in Split(Rat(90, 100), Rat(10, 100))}
            ELSE IF RGeq(accuracy, Rat(60, 100)) THEN
                {Result(0, 0, 0, n, relevant - n) : n \in Split(Rat(80, 100), Rat(20, 100))}
            ELSE {Result(0, 0, 0, 0, relevant)}
        ELSE {Result(0, 0, 0, 0, 0)}

_sim_mania(a, bm, m, score_val, stats_obj) ==
    IF _has_valid_stats(stats_obj)
    THEN {[Perfect |-> _extract_stat(stats_obj, "perfect"),
           Great |-> _extract_stat(stats_obj, "great"),
           Good |-> _extract_stat(stats_obj, "good"),
           Ok |-> _extract_stat(stats_obj, "ok"),
           Meh |-> _extract_stat(stats_obj, "meh"),
           Miss |-> _extract_stat(stats_obj, "miss")]}
    ELSE ManiaSimulate(a, Len(bm.HitObjects), m)

\* _sim_catch, fallback simulation
CatchSimulate(a, bm, m) ==
    LET census == CatchCensus(bm.HitObjects, <<0, 0, 0>>)
        max_fruits == census[1]
        max_droplets_total == census[2]
        max_tiny_droplets == census[3]
        max_droplets == max_droplets_total - max_tiny_droplets
        count_droplets == Max(0, max_droplets - m)
        count_fruits == max_fruits
        count_tiny == max_tiny_droplets
    IN  {[Great |-> count_fruits, LargeTickHit |-> count_droplets,
          SmallTickHit |-> count_tiny, Miss |-> m]}

_sim_catch(a, bm, m, stats_obj) ==
    IF _has_valid_stats(stats_obj)
    THEN {[Great |-> _extract_stat(stats_obj, "great"),
           LargeTickHit |-> _extract_stat(stats_obj, "large_tick_hit"),
           SmallTickHit |-> _extract_stat(stats_obj, "small_tick_hit"),
           SmallTickMiss |-> _extract_stat(stats_obj, "small_tick_miss"),
           Miss |-> _extract_stat(stats_obj, "miss")]}
    ELSE CatchSimulate(a, bm, m)

(***************************************************************************)
(* Inputs of calculate.                                                    *)
(***************************************************************************)
Modes == 0 .. 3

AccValues ==
    {0, 5, 10, 15, 16, 17, 20, 25, 30, 40, 50, 55, 60, 65, 70, 75, 80, 85,
     90, 93, 95, 96, 97, 98, 99, 100}

CatchAccValues == {0, 50, 75, 98, 100}

FieldMaps ==
    UNION {[D -> 0 .. MaxStat] :
              D \in {S \in SUBSET StatNames : Cardinality(S) <= MaxKeys}}

StatsObjs ==
    {NoStats} \cup {[shape |-> s, fields |-> f] : s \in {"dict", "obj"}, f \in FieldMaps}

\* statistics that carry no count: None, {} and {"great": 0}
EmptyStats ==
    {NoStats, [shape |-> "dict", fields |-> <<>>],
     [shape |-> "dict", fields |-> [great |-> 0]]}

PlainBeatmaps ==
    {[HitObjects |-> [i \in 1 .. n |-> Obj("HitObject")]] : n \in 0 .. MaxTotal}

Streams ==
    {JuiceStream(<<Obj("Fruit"), Obj("TinyDroplet"), Obj("Droplet"),
                   Obj("TinyDroplet"), Obj("Fruit")>>),
     JuiceStream(<<Obj("Fruit"), Obj("TinyDroplet"), Obj("TinyDroplet"), Obj("Fruit")>>),
     JuiceStream(<<Obj("Fruit"), Obj("Droplet"), Obj("Droplet"), Obj("Fruit")>>),
     JuiceStream(<<Obj("Droplet")>>)}

CatchObjs == {Obj("Fruit"), Obj("BananaShower")} \cup Streams

CatchBeatmaps ==
    {[HitObjects |-> h] : h \in UNION {[1 .. n -> CatchObjs] : n \in 0 .. MaxCatchObjs}}

SampleBeatmap(md) ==
    IF md = 2
    THEN [HitObjects |-> <<Obj("Fruit"),
                           JuiceStream(<<Obj("Fruit"), Obj("TinyDroplet"), Obj("Droplet"),
                                         Obj("TinyDroplet"), Obj("Fruit")>>)>>]
    ELSE [HitObjects |-> [i \in 1 .. 3 |-> Obj("HitObject")]]

pipeVars == <<file_exists, combo, fs, reader, raised, diff_attr, score, res, calls>>

ExternalCalls ==
    {"FileStream", "LineBufferedReader", "Decode", "Convert", "Difficulty", "Performance"}

\* a Python dict is the function from its keys; nothing is returned yet
NoResult == <<>>
NoScore == [MaxCombo |-> 0, Accuracy |-> <<0, 1>>, Statistics |-> <<>>]
NoAttributes == [StarRating |-> <<>>, MaxCombo |-> 0]

\* the combo argument: None (the default) or an int
ComboNone == [t |-> "None", v |-> 0]
ComboOf(n) == [t |-> "int", v |-> n]

\* the locals of calculate before its first statement
FreshLocals ==
    /\ fs = "None"
    /\ reader = "None"
    /\ raised = ""
    /\ diff_attr = NoAttributes
    /\ score = NoScore
    /\ res = NoResult
    /\ calls = [c \in ExternalCalls |-> 0]

\* the hit-result and mod steps taken on their own: the chart is in place
NoPipeline ==
    /\ file_exists = TRUE
    /\ combo = ComboNone
    /\ FreshLocals

NoMods ==
    /\ mod_list = <<>>
    /\ available_mods = <<>>
    /\ csharp_mods = <<>>

\* a call with statistics of every shape
InitExplicit ==
    /\ statistics \in StatsObjs
    /\ mode \in Modes
    /\ \E p \in {<<100, 0>>, <<50, 2>>} : acc = p[1] /\ misses = p[2]
    /\ beatmap = SampleBeatmap(mode)

\* a call that has to reconstruct the counts
InitSimulated ==
    /\ statistics \in EmptyStats
    /\ mode \in Modes
    /\ misses \in 0 .. MaxMiss
    /\ \/ mode # 2 /\ beatmap \in PlainBeatmaps /\ acc \in AccValues
       \/ mode = 2 /\ beatmap \in CatchBeatmaps /\ acc \in CatchAccValues

\* a Standard chart of 400 objects played with 5 misses at 95%
InitLongChart ==
    /\ statistics = NoStats
    /\ mode = 0
    /\ misses = 5
    /\ acc = 95
    /\ beatmap = [HitObjects |-> [i \in 1 .. 400 |-> Obj("HitObject")]]

Init ==
    /\ pc = "hit_results"
    /\ effective_misses = 0
    /\ stats = <<>>
    /\ NoMods
    /\ NoPipeline
    /\ (InitExplicit \/ InitSimulated \/ InitLongChart)

(***************************************************************************)
(* calculate, step 3 (hit results).                                        *)
(***************************************************************************)
calcInputs == <<mode, acc, misses, statistics, beatmap>>
modVars == <<mod_list, available_mods, csharp_mods>>

ResolveMisses ==
    /\ pc = "hit_results"
    /\ effective_misses' =
          IF _has_valid_stats(statistics)
          THEN _extract_stat(statistics, "Miss")
          ELSE misses
    /\ pc' = "simulate"
    /\ UNCHANGED <<calcInputs, stats, modVars, pipeVars>>

SimOsu ==
    /\ pc = "simulate" /\ mode = 0
    /\ stats' \in _sim_osu(acc, beatmap, effective_misses, statistics)
    /\ pc' = "done"
    /\ UNCHANGED <<calcInputs, effective_misses, modVars, pipeVars>>

SimTaiko ==
    /\ pc = "simulate" /\ mode = 1
    /\ stats' \in _sim_taiko(acc, beatmap, effective_misses, statistics)
    /\ pc' = "done"
    /\ UNCHANGED <<calcInputs, effective_misses, modVars, pipeVars>>

SimCatch ==
    /\ pc = "simulate" /\ mode = 2
    /\ stats' \in _sim_catch(acc, beatmap, effective_misses, statistics)
    /\ pc' = "done"
    /\ UNCHANGED <<calcInputs, effective_misses, modVars, pipeVars>>

SimMania ==
    /\ pc = "simulate" /\ mode = 3
    /\ stats' \in _sim_mania(acc, beatmap, effective_misses, "None", statistics)
    /\ pc' = "done"
    /\ UNCHANGED <<calcInputs, effective_misses, modVars, pipeVars>>

Next == ResolveMisses \/ SimOsu \/ SimTaiko \/ SimCatch \/ SimMania

Spec == Init /\ [][Next]_vars

(***************************************************************************)
(* _parse_mods.  A Python string is the sequence of its character codes; a *)
(* value read from a dict or an object is None or a string.  A raw mod     *)
(* entry is a bare string, a dict or an object with attributes.            *)
(***************************************************************************)
None == [t |-> "None", v |-> <<>>]
Str(chars) == [t |-> "str", v |-> chars]

\* a variant of Upper that leaves the string as it is
UpperIdentity(chars) == chars

\* str.upper() on ASCII text
Upper(chars) ==
    [i \in DOMAIN chars |->
        IF chars[i] >= 97 /\ chars[i] <= 122 THEN chars[i] - 32 ELSE chars[i]]

\* Python truthiness of None and of a string
Truthy(val) == val.t = "str" /\ val.v # <<>>

\* m.get(key) and getattr(m, key, None)
GetOrNone(fields, key) == IF key \in DOMAIN fields THEN fields[key] ELSE None

\* target_acronym of one raw entry
TargetAcronym(m) ==
    IF m.kind = "str" THEN Str(m.v)
    ELSE IF m.kind = "dict"
         THEN (IF Truthy(GetOrNone(m.fields, "acronym"))
               THEN GetOrNone(m.fields, "acronym")
               ELSE GetOrNone(m.fields, "Acronym"))
         ELSE (IF Truthy(GetOrNone(m.fields, "acronym"))
               THEN GetOrNone(m.fields, "acronym")
               ELSE GetOrNone(m.fields, "Acronym"))

\* next((x for x in available_mods if ...), None): the matching indices
FoundAt(avail, target) ==
    {i \in DOMAIN avail : Upper(avail[i].Acronym) = Upper(target.v)}

RECURSIVE ParseModsLoop(_, _, _)
ParseModsLoop(rest, avail, result) ==
    IF rest = <<>> THEN result
    ELSE LET m == Head(rest)
             target_acronym == TargetAcronym(m)
         IN  IF ~Truthy(target_acronym)
             THEN ParseModsLoop(Tail(rest), avail, result)
             ELSE LET at == FoundAt(avail, target_acronym)
                  IN  IF at # {}
                      THEN ParseModsLoop(Tail(rest), avail,
                               Append(result, avail[CHOOSE i \in at : \A j \in at : i <= j]))
                      ELSE ParseModsLoop(Tail(rest), avail, result)

_parse_mods(mods, avail) ==
    IF mods = <<>> THEN <<>> ELSE ParseModsLoop(mods, avail, <<>>)

\* character codes of the acronyms used as inputs
HD == <<72, 68>>
hd == <<104, 100>>
Hd == <<72, 100>>
DT == <<68, 84>>
dt == <<100, 116>>
HR == <<72, 82>>
XX == <<88, 88>>

StrEntry(chars) == [kind |-> "str", v |-> chars, fields |-> <<>>]
DictEntry(f) == [kind |-> "dict", v |-> <<>>, fields |-> f]
ObjEntry(f) == [kind |-> "obj", v |-> <<>>, fields |-> f]

RawMods ==
    {StrEntry(HD), StrEntry(hd), StrEntry(DT), StrEntry(XX), StrEntry(<<>>),
     DictEntry(<<>>),
     DictEntry([acronym |-> Str(Hd)]),
     DictEntry([acronym |-> None]),
     DictEntry([Acronym |-> Str(dt)]),
     DictEntry([acronym |-> Str(<<>>), Acronym |-> Str(HD)]),
     DictEntry([acronym |-> Str(hd), Acronym |-> Str(DT)]),
     ObjEntry(<<>>),
     ObjEntry([acronym |-> Str(Hd)]),
     ObjEntry([Acronym |-> Str(DT)]),
     ObjEntry([acronym |-> None, Acronym |-> Str(hd)]),
     ObjEntry([acronym |-> Str(XX)])}

\* the mod catalogues of two rulesets
Catalogues ==
    {<<[Acronym |-> HD], [Acronym |-> DT], [Acronym |-> HR]>>,
     <<[Acronym |-> DT], [Acronym |-> HD]>>}

InitMods ==
    /\ pc = "parse_mods"
    /\ mod_list \in UNION {[1 .. n -> RawMods] : n \in 0 .. MaxMods}
    /\ available_mods \in Catalogues
    /\ csharp_mods = <<>>
    /\ mode = 0 /\ acc = 100 /\ misses = 0
    /\ statistics = NoStats
    /\ beatmap = [HitObjects |-> <<>>]
    /\ effective_misses = 0
    /\ stats = <<>>
    /\ NoPipeline

\* calculate, step 2: csharp_mods = self._parse_mods(mods, ruleset)
ParseMods ==
    /\ pc = "parse_mods"
    /\ csharp_mods' = _parse_mods(mod_list, available_mods)
    /\ pc' = "mods_parsed"
    /\ UNCHANGED <<calcInputs, effective_misses, stats, mod_list, available_mods, pipeVars>>

NextMods == ParseMods

SpecMods == InitMods /\ [][NextMods]_vars

(***************************************************************************)
(* calculate as a whole: the two checks before the try block, the external *)
(* calls inside it (each of which either returns or raises), the except    *)
(* clause and the finally clause.  pc is the statement about to run.       *)
(***************************************************************************)
\* every mode value tried, the four rulesets and two unknown ones
CalcModes == -1 .. 4

\* diff_attr.MaxCombo as the difficulty calculator may report it
EngineCombos == {3, 7}

\* a variant of ModeIsKnown that takes every mode for a ruleset
ModeAlwaysKnown(md) == TRUE

\* self.rulesets.get(mode) is a ruleset
ModeIsKnown(md) == md \in Modes

\* the statements of the try block that call into the engine
TryBlock ==
    {"FileStream", "LineBufferedReader", "Decode", "Convert", "Mods", "Difficulty",
     "Performance"}

\* a variant of Handler in which the try block ends before the performance call
HandlerBeforePerformance(step) ==
    IF step \in TryBlock \ {"Performance"} THEN "except" ELSE "escaped"

\* where an exception raised by a statement continues
Handler(step) ==
    IF step \in TryBlock THEN "except" ELSE "escaped"

Raise(step) ==
    /\ raised' = step
    /\ pc' = Handler(step)

Called(step) == calls' = [calls EXCEPT ![step] = @ + 1]

InitCalc ==
    /\ pc = "start"
    /\ mode \in CalcModes
    /\ file_exists \in BOOLEAN
    /\ combo \in {ComboNone, ComboOf(0), ComboOf(5)}
    /\ \E p \in {<<95, 1>>, <<50, 0>>} : acc = p[1] /\ misses = p[2]
    /\ statistics \in {NoStats, [shape |-> "dict", fields |-> [great |-> 2, miss |-> 1]]}
    /\ beatmap = SampleBeatmap(mode)
    /\ mod_list \in {<<>>, <<StrEntry(hd), StrEntry(XX)>>}
    /\ available_mods \in Catalogues
    /\ csharp_mods = <<>>
    /\ effective_misses = 0
    /\ stats = <<>>
    /\ FreshLocals

hitVars == <<effective_misses, stats>>

\* if not os.path.exists(abs_path): return {"error": ...}
CheckFile ==
    /\ pc = "start"
    /\ IF file_exists
       THEN pc' = "check_mode" /\ res' = res
       ELSE pc' = "returned" /\ res' = [error |-> "File not found"]
    /\ UNCHANGED <<calcInputs, hitVars, modVars, file_exists, combo, fs, reader, raised,
                   diff_attr, score, calls>>

\* ruleset = self.rulesets.get(mode); if not ruleset: return {"error": "Invalid mode"}
CheckMode ==
    /\ pc = "check_mode"
    /\ IF ModeIsKnown(mode)
       THEN pc' = "open" /\ res' = res
       ELSE pc' = "returned" /\ res' = [error |-> "Invalid mode"]
    /\ UNCHANGED <<calcInputs, hitVars, modVars, file_exists, combo, fs, reader, raised,
                   diff_attr, score, calls>>

\* fs = self.FileStream(abs_path, ...)
OpenStream ==
    /\ pc = "open"
    /\ Called("FileStream")
    /\ \/ fs' = "open" /\ pc' = "reader" /\ raised' = raised
       \/ fs' = fs /\ Raise("FileStream")
    /\ UNCHANGED <<calcInputs, hitVars, modVars, file_exists, combo, reader, diff_attr,
                   score, res>>

\* reader = self.LineBufferedReader(fs)
CreateReader ==
    /\ pc = "reader"
    /\ Called("LineBufferedReader")
    /\ \/ reader' = "open" /\ pc' = "decode" /\ raised' = raised
       \/ reader' = reader /\ Raise("LineBufferedReader")
    /\ UNCHANGED <<calcInputs, hitVars, modVars, file_exists, combo, fs, diff_attr,
                   score, res>>

\* beatmap = decoder.Decode(reader)
Decode ==
    /\ pc = "decode"
    /\ Called("Decode")
    /\ \/ pc' = "convert" /\ raised' = raised
       \/ Raise("Decode")
    /\ UNCHANGED <<calcInputs, hitVars, modVars, file_exists, combo, fs, reader,
                   diff_attr, score, res>>

\* the beatmap converter and FlatWorkingBeatmap
Convert ==
    /\ pc = "convert"
    /\ Called("Convert")
    /\ \/ pc' = "parse_mods" /\ raised' = raised
       \/ Raise("Convert")
    /\ UNCHANGED <<calcInputs, hitVars, modVars, file_exists, combo, fs, reader,
                   diff_attr, score, res>>

\* _parse_mods raises: ruleset.CreateAllMods() fails
ParseModsFails ==
    /\ pc = "parse_mods"
    /\ Raise("Mods")
    /\ UNCHANGED <<calcInputs, hitVars, modVars, file_exists, combo, fs, reader,
                   diff_attr, score, res, calls>>

\* the star rating is whatever the engine makes of the chart and the mods
StarsOf(bm, mods) == <<bm, mods>>

\* diff_attr = diff_calc.Calculate(csharp_mods)
Difficulty ==
    /\ pc = "mods_parsed"
    /\ Called("Difficulty")
    /\ \/ /\ \E mc \in EngineCombos :
                diff_attr' = [StarRating |-> StarsOf(beatmap, csharp_mods), MaxCombo |-> mc]
          /\ pc' = "hit_results"
          /\ raised' = raised
       \/ diff_attr' = diff_attr /\ Raise("Difficulty")
    /\ UNCHANGED <<calcInputs, hitVars, modVars, file_exists, combo, fs, reader, score, res>>
\* a variant of ScoreMaxCombo that tests the truth value of combo
ScoreMaxComboIfTruthy(cmb, da) ==
    IF cmb.t # "None" /\ cmb.v # 0 THEN cmb.v ELSE da.MaxCombo

\* int(combo) if combo is not None else diff_attr.MaxCombo
ScoreMaxCombo(cmb, da) ==
    IF cmb.t # "None" THEN cmb.v ELSE da.MaxCombo

\* score = self.ScoreInfo() and its fields
ConstructScore ==
    /\ pc = "done"
    /\ score' = [MaxCombo |-> ScoreMaxCombo(combo, diff_attr),
                 Accuracy |-> Rat(acc, 100),
                 Statistics |-> stats]
    /\ pc' = "performance"
    /\ UNCHANGED <<calcInputs, hitVars, modVars, file_exists, combo, fs, reader, raised,
                   diff_attr, res, calls>>

\* pp_attr.Total is whatever the engine makes of the score and the attributes
TotalOf(sc, da) == <<sc, da>>

\* the dict built at the end of the try block
SuccessRecord(md, da, sc, st) ==
    [mode |-> md, stars |-> da.StarRating, pp |-> TotalOf(sc, da),
     max_combo |-> da.MaxCombo, stats_used |-> st]

\* pp_attr = perf_calc.Calculate(score, diff_attr); res = {...}; return res
Performance ==
    /\ pc = "performance"
    /\ Called("Performance")
    /\ \/ /\ res' = SuccessRecord(mode, diff_attr, score, stats)
          /\ pc' = "finally"
          /\ raised' = raised
       \/ res' = res /\ Raise("Performance")
    /\ UNCHANGED <<calcInputs, hitVars, modVars, file_exists, combo, fs, reader,
                   diff_attr, score>>

\* except Exception as e: return {"error": str(e)}
ExceptHandler ==
    /\ pc = "except"
    /\ res' = [error |-> raised]
    /\ pc' = "finally"
    /\ UNCHANGED <<calcInputs, hitVars, modVars, file_exists, combo, fs, reader, raised,
                   diff_attr, score, calls>>

\* if reader: reader.Dispose()
DisposeReader(r) == IF r # "None" THEN "disposed" ELSE r

\* a variant of DisposeFs that leaves the stream as it is
DisposeFsSkipped(f) == f

\* if fs: fs.Dispose()
DisposeFs(f) == IF f # "None" THEN "disposed" ELSE f

\* the finally clause, after which calculate returns
Finally ==
    /\ pc = "finally"
    /\ reader' = DisposeReader(reader)
    /\ fs' = DisposeFs(fs)
    /\ pc' = "returned"
    /\ UNCHANGED <<calcInputs, hitVars, modVars, file_exists, combo, raised, diff_attr,
                   score, res, calls>>

NextCalc ==
    \/ CheckFile \/ CheckMode
    \/ OpenStream \/ CreateReader \/ Decode \/ Convert
    \/ ParseMods \/ ParseModsFails \/ Difficulty
    \/ ResolveMisses \/ SimOsu \/ SimTaiko \/ SimCatch \/ SimMania
    \/ ConstructScore \/ Performance
    \/ ExceptHandler \/ Finally

SpecCalc == InitCalc /\ [][NextCalc]_vars

(***************************************************************************)
(* Vocabulary of the properties.                                           *)
(***************************************************************************)
\* the recognized judgment-kind fields of partial statistics
RecognizedKinds ==
    {"great", "ok", "meh", "good", "perfect", "miss", "large_tick_hit",
     "small_tick_hit", "small_tick_miss"}

\* the statistics field each HitResult of a mode is copied from
KindField(md) ==
    IF md = 0 THEN [Great |-> "great", Ok |-> "ok", Meh |-> "meh", Miss |-> "miss"]
    ELSE IF md = 1 THEN [Great |-> "great", Ok |-> "ok", Miss |-> "miss"]
    ELSE IF md = 2 THEN [Great |-> "great", LargeTickHit |-> "large_tick_hit",
                         SmallTickHit |-> "small_tick_hit",
                         SmallTickMiss |-> "small_tick_miss", Miss |-> "miss"]
    ELSE [Perfect |-> "perfect", Great |-> "great", Good |-> "good", Ok |-> "ok",
          Meh |-> "meh", Miss |-> "miss"]

\* the count a statistics value carries under a name, 0 when it has none
FieldOrZero(s, name) ==
    IF s.shape # "none" /\ name \in DOMAIN s.fields THEN s.fields[name] ELSE 0

HasPositiveRecognized(s) == \E k \in RecognizedKinds : FieldOrZero(s, k) > 0

\* the partial statistics copied verbatim into the kinds of a mode
Verbatim(md, s) == [kind \in DOMAIN KindField(md) |-> FieldOrZero(s, KindField(md)[kind])]

\* the count a result dict reports for a kind, 0 when the kind is absent
Count(d, kind) == IF kind \in DOMAIN d THEN d[kind] ELSE 0

RECURSIVE SumOver(_, _)
SumOver(d, kinds) ==
    IF kinds = {} THEN 0
    ELSE LET k == CHOOSE x \in kinds : TRUE
         IN  d[k] + SumOver(d, kinds \ {k})

\* the sum of all counts of a result dict
SumCounts(d) == SumOver(d, DOMAIN d)

Total == Len(beatmap.HitObjects)
Census == CatchCensus(beatmap.HitObjects, <<0, 0, 0>>)
Simulated == pc = "done" /\ ~_has_valid_stats(statistics)

(***************************************************************************)
(* Properties.                                                             *)
(***************************************************************************)
\* C1: whenever the partial statistics have a recognized field with a
\* strictly positive value, the judgment counts calculate uses are the
\* partial statistics verbatim (a missing kind is 0), whatever acc and
\* misses are.
C1_ExplicitVerbatim ==
    (pc = "done" /\ HasPositiveRecognized(statistics))
        => stats = Verbatim(mode, statistics)

\* C2: the explicit path is selected if and only if the partial statistics
\* are non-empty and a recognized judgment-kind field (small_tick_miss
\* included) is strictly positive.
C2_UseExplicitIff ==
    (pc # "hit_results")
        => (_has_valid_stats(statistics) <=> HasPositiveRecognized(statistics))

\* C3: on the explicit path the effective miss count is the value of the
\* statistics' miss field (0 if absent); on the simulation path it is the
\* misses argument.
C3_EffectiveMiss ==
    (pc # "hit_results")
        => effective_misses = IF _has_valid_stats(statistics)
                              THEN FieldOrZero(statistics, "miss")
                              ELSE misses

\* the first-letter-capitalized variant of a judgment-kind name
Capitalized(name) ==
    CASE name = "great" -> "Great"
      [] name = "ok" -> "Ok"
      [] name = "meh" -> "Meh"
      [] name = "good" -> "Good"
      [] name = "perfect" -> "Perfect"
      [] name = "miss" -> "Miss"
      [] name = "large_tick_hit" -> "Large_tick_hit"
      [] name = "small_tick_hit" -> "Small_tick_hit"
      [] name = "small_tick_miss" -> "Small_tick_miss"
      [] OTHER -> name

\* a lookup by name that falls back to the capitalized name, then to 0
LookupWithFallback(s, name) ==
    IF s.shape = "none" THEN 0
    ELSE IF name \in DOMAIN s.fields THEN s.fields[name]
    ELSE FieldOrZero(s, Capitalized(name))

\* C4: reading a judgment kind gives the same value for a mapping and for an
\* attribute-bearing value with the same fields, and a name that is absent
\* is looked up under its first-letter-capitalized variant before the read
\* defaults to 0.
C4_ExtractUniformWithFallback ==
    (pc # "hit_results") =>
        \A k \in RecognizedKinds :
            /\ _extract_stat([shape |-> "dict", fields |-> statistics.fields], k)
                 = _extract_stat([shape |-> "obj", fields |-> statistics.fields], k)
            /\ _extract_stat(statistics, k) = LookupWithFallback(statistics, k)

\* the number of objects the reconstruction of a mode distributes: the
\* object count, and for catch fruits + droplets + tiny droplets
CensusTotal == IF mode = 2 THEN Census[1] + Census[2] ELSE Total

\* C5: on the simulation path of every mode the counts of the output, misses
\* included, sum to the object-census total (stated here for the calls whose
\* miss count does not exceed that total).
C5_Conservation ==
    (Simulated /\ misses <= CensusTotal) => SumCounts(stats) = CensusTotal

\* C6: every judgment count of every output, explicit or simulated, is >= 0.
C6_NonNegative ==
    (pc = "done") => \A k \in DOMAIN stats : stats[k] >= 0

\* a simulated Taiko call whose rounded great count is negative before clamping
C6_Witness ==
    /\ Simulated /\ mode = 1
    /\ acc = 0 /\ misses = 0 /\ Total = 2
    /\ stats.Great = 0

\* the catch counts of the reference formula: one dict per admissible rounding
CatchReference ==
    LET maxFruits == Census[1]
        maxLargeTicks == Census[2]
        maxSmallTicks == Census[3]
        M == effective_misses
        maxDroplets == maxLargeTicks - maxSmallTicks
        countDroplets == Max(0, maxDroplets - M)
        countFruits == Max(0, maxFruits - (M - (maxDroplets - countDroplets)))
        totalObjects == maxFruits + maxDroplets + maxSmallTicks
    IN  {LET countTiny == Max(0, Min(targetHits - countFruits - countDroplets,
                                     maxSmallTicks))
         IN  [Great |-> countFruits, LargeTickHit |-> countDroplets,
              SmallTickHit |-> countTiny,
              SmallTickMiss |-> maxSmallTicks - countTiny, Miss |-> M] :
            targetHits \in Round(RMul(Rat(acc, 100), RInt(totalObjects)))}

\* C7: on the simulation path the catch counts are those of the reference
\* formula (droplets absorb the misses first, then fruits; the tiny-droplet
\* hits are solved from the accuracy; the tiny misses are the rest); a kind
\* the output does not carry counts as 0.
C7_CatchFormula ==
    (Simulated /\ mode = 2) =>
        \E ref \in CatchReference :
            \A kind \in DOMAIN ref : Count(stats, kind) = ref[kind]

\* C8: the Standard reconstruction with misses >= total returns only a miss
\* count equal to misses, for every accuracy.
C8_ZeroRelevant ==
    (Simulated /\ mode = 0 /\ misses >= Total) => stats = [Miss |-> misses]

\* a simulated Standard call with more misses than objects
C8_Witness ==
    /\ Simulated /\ mode = 0
    /\ Total = 3 /\ misses = 5 /\ acc = 95
    /\ stats = [Miss |-> 5]

\* lower-case folding of a character code
Fold(c) == IF c >= 65 /\ c <= 90 THEN c + 32 ELSE c

SameIgnoringCase(a, b) ==
    Len(a) = Len(b) /\ \A i \in 1 .. Len(a) : Fold(a[i]) = Fold(b[i])

\* the acronyms a raw entry yields (none or one): the bare string itself, or
\* the text under 'acronym', or else the text under 'Acronym'
AcronymsOf(m) ==
    IF m.kind = "str" THEN {m.v}
    ELSE IF "acronym" \in DOMAIN m.fields /\ m.fields["acronym"].t = "str"
            /\ m.fields["acronym"].v # <<>>
         THEN {m.fields["acronym"].v}
    ELSE IF "Acronym" \in DOMAIN m.fields /\ m.fields["Acronym"].t = "str"
         THEN {m.fields["Acronym"].v}
    ELSE {}

\* the raw entry resolves to the catalogue entry x
Resolves(m, x) == \E a \in AcronymsOf(m) : SameIgnoringCase(a, x.Acronym)

\* one catalogue entry per raw entry that resolves, in input order
RECURSIVE ResolvedMods(_, _)
ResolvedMods(raw, avail) ==
    IF raw = <<>> THEN <<>>
    ELSE LET hits == {i \in DOMAIN avail : Resolves(Head(raw), avail[i])}
         IN  (IF hits = {} THEN <<>> ELSE <<avail[CHOOSE i \in hits : TRUE]>>)
             \o ResolvedMods(Tail(raw), avail)

\* C9: every raw entry whose acronym equals a catalogue acronym
\* case-insensitively contributes that catalogue entry; an entry yielding no
\* acronym or matching nothing contributes nothing; every member of the
\* result is one of the available mods.
C9_ModsResolve ==
    (pc = "mods_parsed") =>
        /\ csharp_mods = ResolvedMods(mod_list, available_mods)
        /\ \A i \in DOMAIN csharp_mods :
               \E j \in DOMAIN available_mods : csharp_mods[i] = available_mods[j]

\* 'hd', 'HD' and {'acronym': 'Hd'} parsed against a catalogue holding HD
C9_Witness ==
    /\ pc = "mods_parsed"
    /\ mod_list = <<StrEntry(hd), StrEntry(HD), DictEntry([acronym |-> Str(Hd)])>>
    /\ \A i \in 1 .. 3 : csharp_mods[i] = [Acronym |-> HD]
    /\ Len(csharp_mods) = 3

\* the position of the first raw entry that resolves to x
FirstSeenAt(x) ==
    LET at == {k \in DOMAIN mod_list : Resolves(mod_list[k], x)}
    IN  CHOOSE k \in at : \A l \in at : k <= l

\* C10: the result holds each matched mod at most once, and the retained
\* entries are in the order in which each was first seen in the input.
C10_OrderedSet ==
    (pc = "mods_parsed") =>
        /\ \A i, j \in DOMAIN csharp_mods : i # j => csharp_mods[i] # csharp_mods[j]
        /\ \A i, j \in DOMAIN csharp_mods :
               i < j => FirstSeenAt(csharp_mods[i]) < FirstSeenAt(csharp_mods[j])

(***************************************************************************)
(* Properties of calculate as a whole.                                     *)
(***************************************************************************)
SuccessKeys == {"mode", "stars", "pp", "max_combo", "stats_used"}
IsError(r) == DOMAIN r = {"error"}
IsSuccess(r) == DOMAIN r = SuccessKeys
StreamAcquired == calls["FileStream"] = 1 /\ raised # "FileStream"
ReaderAcquired == calls["LineBufferedReader"] = 1 /\ raised # "LineBufferedReader"

\* the statement at pc can run: the guards of the actions of NextCalc
CanStep ==
    \/ pc \in {"start", "check_mode", "open", "reader", "decode", "convert", "parse_mods",
               "mods_parsed", "hit_results", "done", "performance", "except", "finally"}
    \/ /\ pc = "simulate"
       /\ mode \in Modes
       /\ {} # (IF mode = 0 THEN _sim_osu(acc, beatmap, effective_misses, statistics)
                ELSE IF mode = 1 THEN _sim_taiko(acc, beatmap, effective_misses, statistics)
                ELSE IF mode = 2 THEN _sim_catch(acc, beatmap, effective_misses, statistics)
                ELSE _sim_mania(acc, beatmap, effective_misses, "None", statistics))

\* C11: an invocation always goes on until it returns, no exception leaves
\* it, what it returns is either the success record or an error record and
\* never both, a raised exception is returned as the error, and no external
\* call is made twice.
C11_OneOutcome ==
    /\ pc # "escaped"
    /\ pc # "returned" => CanStep
    /\ pc = "returned" => (IsError(res) /\ ~IsSuccess(res)) \/ (IsSuccess(res) /\ ~IsError(res))
    /\ (pc = "returned" /\ raised # "") => (IsError(res) /\ res.error = raised)
    /\ (pc = "returned" /\ raised = "" /\ file_exists /\ mode \in Modes) => IsSuccess(res)
    /\ \A c \in ExternalCalls : calls[c] <= 1

C11_Witness ==
    /\ pc = "returned"
    /\ raised = "Performance"
    /\ IsError(res)
    /\ calls["Performance"] = 1

\* C12, as stated: an unknown mode returns the invalid-mode error whatever
\* the other arguments, a missing chart included, and opens nothing.
C12_ModeFirst ==
    (pc = "returned" /\ mode \notin Modes) =>
        /\ IsError(res)
        /\ res.error = "Invalid mode"
        /\ \A c \in ExternalCalls : calls[c] = 0

\* C12, amended: an unknown mode returns the invalid-mode error when the
\* chart exists and the file-not-found error when it does not, and opens
\* nothing in either case.
C12_ModeAfterFile ==
    (pc = "returned" /\ mode \notin Modes) =>
        /\ IsError(res)
        /\ res.error = (IF file_exists THEN "Invalid mode" ELSE "File not found")
        /\ fs = "None" /\ reader = "None"
        /\ \A c \in ExternalCalls : calls[c] = 0

C12_Witness ==
    /\ pc = "returned"
    /\ mode \notin Modes
    /\ file_exists
    /\ IsError(res)
    /\ res.error = "Invalid mode"

\* C13: when calculate returns, the stream and the reader are released if
\* they were acquired, and nothing is ever released that was not acquired.
C13_Release ==
    /\ pc = "returned" =>
          /\ fs = (IF StreamAcquired THEN "disposed" ELSE "None")
          /\ reader = (IF ReaderAcquired THEN "disposed" ELSE "None")
    /\ fs = "disposed" => StreamAcquired
    /\ reader = "disposed" => ReaderAcquired

C13_Witness ==
    /\ pc = "returned"
    /\ raised = "Decode"
    /\ fs = "disposed"
    /\ reader = "disposed"

\* C14, as stated: the score's max combo is the combo argument when one is
\* given, 0 included, and the engine's otherwise, and the max_combo of a
\* success record is that same value.
C14_ComboUsed ==
    (pc = "returned" /\ IsSuccess(res)) =>
        /\ score.MaxCombo = (IF combo.t = "int" THEN combo.v ELSE diff_attr.MaxCombo)
        /\ res.max_combo = score.MaxCombo

\* C14, amended: the score's max combo is the combo argument when one is
\* given, 0 included, and the engine's otherwise; the max_combo of a success
\* record is the engine's max combo whether or not a combo was given.
C14_ComboReported ==
    (pc = "returned" /\ IsSuccess(res)) =>
        /\ score.MaxCombo = (IF combo.t = "int" THEN combo.v ELSE diff_attr.MaxCombo)
        /\ res.max_combo = diff_attr.MaxCombo
        /\ res.pp = TotalOf(score, diff_attr)

C14_Witness ==
    /\ pc = "returned"
    /\ IsSuccess(res)
    /\ combo = ComboOf(0)
    /\ score.MaxCombo = 0
    /\ res.max_combo = 7

(***************************************************************************)
(* Properties of the Standard, Taiko and Mania reconstructions.            *)
(***************************************************************************)
\* the three-regime formula: the <<ok, meh, miss>> triples it allows
OsuReference(a, T, M) ==
    LET relevant == T - M
        raw == RDiv(RMul(Rat(a, 100), RInt(T)), RInt(relevant))
        relAcc == IF RGeq(raw, RInt(1)) THEN RInt(1)
                  ELSE IF RGeq(raw, RInt(0)) THEN raw ELSE RInt(0)
    IN  IF RGeq(relAcc, Rat(1, 4)) THEN
            LET root == RSub(RInt(1), RDiv(RSub(relAcc, Rat(1, 4)), Rat(3, 4)))
                ratio == RMul(root, root)
                c_ok == RDiv(RMul(RMul(RInt(6), RInt(relevant)), RSub(RInt(1), relAcc)),
                             RAdd(RMul(RInt(5), ratio), RInt(4)))
                c_meh == RMul(c_ok, ratio)
            IN  {<<n_ok, both - n_ok, M>> :
                    n_ok \in Round(c_ok), both \in Round(RAdd(c_ok, c_meh))}
        ELSE IF RGeq(relAcc, Rat(1, 6)) THEN
            LET c_ok == RSub(RMul(RMul(RInt(6), RInt(relevant)), relAcc), RInt(relevant))
                c_meh == RSub(RInt(relevant), c_ok)
            IN  {<<n_ok, both - n_ok, M>> :
                    n_ok \in Round(c_ok), both \in Round(RAdd(c_ok, c_meh))}
        ELSE {<<0, n_meh, T - n_meh>> :
                n_meh \in Round(RMul(RMul(RInt(6), RInt(relevant)), relAcc))}

\* C15: with objects left after the misses, the simulated Standard counts are
\* those of the three-regime formula: ok and meh as it rounds them, the miss
\* count it keeps or recomputes, best the rest of the total, each clamped at
\* 0; 400 objects with 5 misses at 95% give 373 best, 22 ok, 0 meh, 5 misses.
C15_ThreeRegimes ==
    (Simulated /\ mode = 0 /\ Total - misses > 0) =>
        /\ \E t \in OsuReference(acc, Total, misses) :
              stats = [Great |-> Max(0, Total - t[1] - t[2] - t[3]), Ok |-> Max(0, t[1]),
                       Meh |-> Max(0, t[2]), Miss |-> Max(0, t[3])]
        /\ (Total = 400 /\ misses = 5 /\ acc = 95) =>
              stats = [Great |-> 373, Ok |-> 22, Meh |-> 0, Miss |-> 5]

\* the 400-object chart reconstructed
C15_Witness ==
    /\ Simulated /\ mode = 0
    /\ Total = 400 /\ misses = 5 /\ acc = 95
    /\ stats.Great = 373 /\ stats.Ok = 22

ManiaKinds == <<"Perfect", "Great", "Good", "Ok", "Meh">>

\* the band of a whole-percent accuracy, 1 (>= 0.96) to 5 (below 0.60)
ManiaBand(a) ==
    IF a >= 96 THEN 1 ELSE IF a >= 90 THEN 2 ELSE IF a >= 80 THEN 3
    ELSE IF a >= 60 THEN 4 ELSE 5

\* p of the band: 1 - (upper end - accuracy) / width
ManiaP(a) ==
    LET band == ManiaBand(a)
        upper == <<RInt(1), Rat(96, 100), Rat(90, 100), Rat(80, 100)>>
        width == <<Rat(4, 100), Rat(6, 100), Rat(10, 100), Rat(20, 100)>>
    IN  RSub(RInt(1), RDiv(RSub(upper[band], Rat(a, 100)), width[band]))

\* C16: with objects left after the misses, the simulated Mania counts put
\* round(p * relevant) into the higher kind of the one selected band, with p
\* in [0, 1], the rest of relevant into the lower kind, 0 into every other
\* kind and misses into miss; below 0.60 all relevant objects are meh.  At
\* 0.96, 0.90, 0.80 and 0.60 all relevant objects are in the lower kind of the
\* band, which is where the band below ends (its p = 1).
C16_Bands ==
    (Simulated /\ mode = 3 /\ Total - misses > 0) =>
        LET relevant == Total - misses
            band == ManiaBand(acc)
        IN  /\ DOMAIN stats = {"Perfect", "Great", "Good", "Ok", "Meh", "Miss"}
            /\ stats.Miss = misses
            /\ IF band = 5
               THEN \A i \in 1 .. 5 :
                        stats[ManiaKinds[i]] = (IF i = 5 THEN relevant ELSE 0)
               ELSE /\ RGeq(ManiaP(acc), RInt(0)) /\ RGeq(RInt(1), ManiaP(acc))
                    /\ \E n \in Round(RMul(ManiaP(acc), RInt(relevant))) :
                          \A i \in 1 .. 5 :
                              stats[ManiaKinds[i]] =
                                  (IF i = band THEN n
                                   ELSE IF i = band + 1 THEN relevant - n ELSE 0)
            /\ acc \in {96, 90, 80, 60} => stats[ManiaKinds[band + 1]] = relevant

\* a Mania chart at the 0.90 boundary: every hit object is a good
C16_Witness ==
    /\ Simulated /\ mode = 3
    /\ acc = 90 /\ Total = 8 /\ misses = 2
    /\ stats.Good = 6 /\ stats.Great = 0 /\ stats.Miss = 2

\* C17: for a Standard chart with fewer misses than objects the simulated
\* counts sum to the total, that is, no count is changed by the clamping at 0
\* (ok + meh does not exceed total - miss).
C17_StandardSum ==
    (Simulated /\ mode = 0 /\ Total > 0 /\ misses < Total) =>
        /\ stats.Great + stats.Ok + stats.Meh + stats.Miss = Total
        /\ stats.Ok + stats.Meh <= Total - stats.Miss

\* a low-accuracy chart whose miss count was recomputed
C17_Witness ==
    /\ Simulated /\ mode = 0
    /\ Total = 8 /\ misses = 1 /\ acc = 10
    /\ stats.Miss > misses
    /\ stats.Great + stats.Ok + stats.Meh + stats.Miss = 8

\* C18, as stated: for a Taiko chart with at most as many misses as objects
\* the simulated great, good (the Ok count) and miss counts sum to the total
\* and the miss count is misses.
C18_TaikoSum ==
    (Simulated /\ mode = 1 /\ misses <= Total) =>
        /\ stats.Great + stats.Ok + stats.Miss = Total
        /\ stats.Miss = misses

\* C19: for a Standard chart with fewer misses than objects and an accuracy
\* that the objects left can reach (acc/100 * T <= T - M), the accuracy of the
\* simulated counts, (300 best + 100 ok + 50 meh) / (300 T), is within
\* 1 / (2 T) of acc/100.
C19_Inverts ==
    (Simulated /\ mode = 0 /\ Total > 0 /\ misses < Total
               /\ acc * Total <= 100 * (Total - misses)) =>
        LET recomputed == Rat(300 * stats.Great + 100 * stats.Ok + 50 * stats.Meh,
                              300 * Total)
            diff == RSub(recomputed, Rat(acc, 100))
        IN  /\ RGeq(Rat(1, 2 * Total), diff)
            /\ RGeq(diff, Rat(-1, 2 * Total))

\* a chart of 8 objects, 1 miss, 75%: the counts give 1750 / 2400
C19_Witness ==
    /\ Simulated /\ mode = 0
    /\ Total = 8 /\ misses = 1 /\ acc = 75
    /\ 300 * stats.Great + 100 * stats.Ok + 50 * stats.Meh # 300 * 6

====
